---- MODULE Spec2Model ----
(***************************************************************************)
(* mirror: verification of a directory tree against a file database.       *)
(*                                                                         *)
(* The model follows mirror::verifyDir and mirror::_helper::scanFiles of   *)
(* src/src/mirror/utils.hpp.  A path is a sequence of names (the relative  *)
(* directory "" is <<>>, "a/b" is <<"a", "b">>).  The live file system is  *)
(* a set of entries, the database is the pair (dirs, files) that           *)
(* FileDB::getDirs and FileDB::getFiles read.                              *)
(***************************************************************************)
EXTENDS Integers, Sequences, FiniteSets, TLC

\* ------------------------------------------------------------------ bounds
\* Deepest level of the live tree and of the recorded tree.
MaxDepth == 2
\* Largest number of entries of the live tree and of the tree the database
\* was recorded from, taken together.
MaxEntries == 3

\* ------------------------------------------------------------ value sets
Names == {"a", "b"}
DotNames == {".", ".."}

Sizes == {10, 12}
Stamps == {1, 2}
Digests == {"D1", "D2"}

\* mirror::FileRecord as verifyDir reads it: fileSize, lastModifiedTS (held
\* as a millisecond count) and md5Digest.
FileRecs == [fileSize : Sizes, lastModifiedTS : Stamps, md5Digest : Digests]
NoRec == [fileSize |-> 0, lastModifiedTS |-> 0, md5Digest |-> "-"]
RecordedRec == [fileSize |-> 10, lastModifiedTS |-> 1, md5Digest |-> "D1"]

\* afc timestamp accessor used by the comparison.
millis(ts) == ts

\* d_type values of a dirent that scanFiles distinguishes.
DT_REG == "DT_REG"
DT_DIR == "DT_DIR"
DT_OTHER == "DT_OTHER"

\* --------------------------------------------------------- tree generation
Entry(p, t, r) == [path |-> p, type |-> t, rec |-> r]

LiveLeaves == {[type |-> DT_REG, rec |-> r] : r \in FileRecs}
                 \cup {[type |-> DT_OTHER, rec |-> NoRec]}
RecordedLeaves == {[type |-> DT_REG, rec |-> RecordedRec]}

RECURSIVE ForestOver(_, _, _, _, _)
RECURSIVE NodeAt(_, _, _, _)

\* The trees rooted at path p: nothing, a leaf, or a directory with a forest.
NodeAt(p, d, n, leaves) ==
    {{}}
    \cup {{Entry(p, l.type, l.rec)} : l \in leaves}
    \cup {{Entry(p, DT_DIR, NoRec)} \cup S : S \in ForestOver(Names, p, d - 1, n - 1, leaves)}

\* The sets of entries below prefix that use the given names, are at most d
\* levels deep and have at most n entries.
ForestOver(names, prefix, d, n, leaves) ==
    IF names = {} \/ n = 0 \/ d = 0 THEN {{}}
    ELSE LET x == CHOOSE y \in names : TRUE
         IN  UNION { {A \cup B : B \in ForestOver(names \ {x}, prefix, d, n - Cardinality(A), leaves)}
                     : A \in NodeAt(Append(prefix, x), d, n, leaves) }

LiveTrees == ForestOver(Names, <<>>, MaxDepth, MaxEntries, LiveLeaves)
RecordedTrees(n) == ForestOver(Names, <<>>, MaxDepth, n, RecordedLeaves)

\* ---------------------------------------------------------- path helpers
Last(p) == p[Len(p)]
Parent(p) == SubSeq(p, 1, Len(p) - 1)
IsPrefix(p, q) == Len(p) <= Len(q) /\ SubSeq(q, 1, Len(p)) = p

\* The entries of directory dir in the tree.
Children(tree, dir) == {e \in tree : Len(e.path) > 0 /\ Parent(e.path) = dir}
ChildNames(tree, dir) == {Last(e.path) : e \in Children(tree, dir)}
ChildEntry(tree, dir, name) == CHOOSE e \in tree : e.path = Append(dir, name)

\* ------------------------------------------------------------ the database
\* createDB: the recorder registers every directory it enters and upserts a
\* record for every regular file it visits.
createDB(tree) ==
    [dirs  |-> {<<>>} \cup {e.path : e \in {x \in tree : x.type = DT_DIR}},
     files |-> {[dir |-> Parent(e.path), name |-> Last(e.path), rec |-> e.rec]
                   : e \in {x \in tree : x.type = DT_REG}}]

\* FileDB::getDirs: all directory paths of the database.
getDirs(d) == d.dirs

\* FileDB::getFiles: the files recorded directly under relDir, by name.
getFiles(d, relDir) ==
    LET rows == {f \in d.files : f.dir = relDir}
    IN  [n \in {f.name : f \in rows} |-> (CHOOSE f \in rows : f.name = n).rec]

\* -------------------------------------------------------------- the state
VARIABLES
    fs,            \* the live tree below rootDir: a set of entries
    db,            \* the database: [dirs, files]
    pc,            \* where verifyDir is: start, scan, postwalk, done, aborted
    stack,         \* the scanFiles activations, innermost last
    dirHandles,    \* relative paths of the DIR handles opened and not closed
    dbDirs,        \* EventHandler::dbDirs
    ctxs,          \* EventHandler::ctxs, top last
    log,           \* what verifyDir reported through the logger, in order
    handlerCalls,  \* the calls made on the MismatchHandler argument, in order
    calls,         \* the EventHandler callbacks scanFiles made, in order
    denied,        \* the directories scanFiles logged "No access to" for
    thrown,        \* what was thrown out of verifyDir: none, opendir, file
    hashed         \* the paths fillFileRecord was called for

\* mirror::_helper::processFile, one call of it.
VARIABLES
    pfPc,          \* idle, open, read, close, returned, thrown
    pfLeft,        \* bytes of the file that fread has not returned yet
    pfFile,        \* the FILE handle f: null, open, closed
    fcloseCalls,   \* how many times fclose was called on f
    chunks,        \* the sizes chunkOp was called with, in order
    pfThrown,      \* what left processFile: none, open, read, chunkOp, close
    pfLogged       \* whether "Unable to close the file" was logged

\* main of src/main.cpp, one run of it.
VARIABLES
    mainPc,        \* idle, getopt, checks, open, tool, catch, close, handlers, exited
    opts,          \* the options getopt_long has yet to return
    operands,      \* argc - optind: the number of non-option arguments
    ndebug,        \* whether assert is compiled out
    tool,          \* Tool t
    toolDefined,
    dbDefined,
    dbHandle,      \* mirror::FileDB db: unopened, open, closed
    closeCalls,    \* how many times db.close() was called
    inFlight,      \* the exception in flight: none, std::exception, const char*, int
    exit           \* how main ended: none, 0, 1, terminate, abort

\* VerifyDirMismatchHandler::checkFileMismatch, one call of it.
VARIABLES
    cfExpected,    \* the argument expectedFileRecord
    cfActual,      \* the argument actualFileRecord
    cfPc,          \* idle, call, returned
    fullMatch,     \* the value returned
    cfLog          \* what the call reported, in order

walkVars == <<fs, db, pc, stack, dirHandles, dbDirs, ctxs, log, handlerCalls, calls, denied, thrown, hashed>>
pfVars == <<pfPc, pfLeft, pfFile, fcloseCalls, chunks, pfThrown, pfLogged>>
mainVars == <<mainPc, opts, operands, ndebug, tool, toolDefined, dbDefined, dbHandle, closeCalls, inFlight, exit>>
cfVars == <<cfExpected, cfActual, cfPc, fullMatch, cfLog>>
\* What a step of verifyDir leaves alone.
others == <<pfVars, mainVars, cfVars>>

vars == <<walkVars, pfVars, mainVars, cfVars>>

\* No call of verifyDir is under way.
walkIdle ==
    /\ fs = {} /\ db = [dirs |-> {}, files |-> {}] /\ pc = "idle" /\ stack = <<>>
    /\ dirHandles = {} /\ dbDirs = {} /\ ctxs = <<>> /\ log = <<>>
    /\ handlerCalls = <<>> /\ calls = <<>> /\ denied = {} /\ thrown = "none"
    /\ hashed = {}

\* No call of processFile is under way.
pfIdle ==
    /\ pfPc = "idle" /\ pfLeft = 0 /\ pfFile = "null" /\ fcloseCalls = 0
    /\ chunks = <<>> /\ pfThrown = "none" /\ pfLogged = FALSE

\* No run of main is under way.
mainIdle ==
    /\ mainPc = "idle" /\ opts = <<>> /\ operands = 0 /\ ndebug = FALSE
    /\ tool = "undefined" /\ toolDefined = FALSE /\ dbDefined = FALSE
    /\ dbHandle = "unopened" /\ closeCalls = 0 /\ inFlight = "none" /\ exit = "none"

\* No call of checkFileMismatch is under way.
cfIdle ==
    /\ cfPc = "idle" /\ fullMatch = TRUE /\ cfLog = <<>>
    /\ cfExpected = [type |-> "file"] /\ cfActual = [type |-> "file"]

\* One activation of scanFiles: its relDir argument, whether opendir has run,
\* and the names readdir has yet to return from its DIR handle.
Frame(relDir, at, names) == [relDir |-> relDir, at |-> at, dirp |-> names]

Top(s) == s[Len(s)]
Pop(s) == SubSeq(s, 1, Len(s) - 1)
SetTop(s, x) == [s EXCEPT ![Len(s)] = x]

\* The orders in which a container may be iterated.
Orders(S) == {q \in [1..Cardinality(S) -> S] : \A i, j \in 1..Cardinality(S) : q[i] = q[j] => i = j}

Event(t, p) == [type |-> t, path |-> p]
Call(op, relDir, name) == [op |-> op, relDir |-> relDir, name |-> name]

\* d_type of the dirent named name in directory relDir.
d_type(tree, relDir, name) ==
    IF name \in DotNames THEN DT_DIR ELSE ChildEntry(tree, relDir, name).type

\* What readdir returns over the life of a DIR handle of relDir.
Listing(tree, relDir) == ChildNames(tree, relDir) \cup DotNames

\* The names readdir may return next: any order among the entries; the
\* model takes "." and ".." before them.
NextNames(dirp) == IF dirp \cap DotNames # {} THEN dirp \cap DotNames ELSE dirp

\* fillFileRecord: size, modification time and digest of the live file.
fillFileRecord(tree, filePath) == (CHOOSE e \in tree : e.path = filePath).rec

\* file() calls fillFileRecord only for a name the database records in the
\* directory: the record of any other live file is never read, and one
\* value stands for all of them.
ReadOrCanonical(tree, d) ==
    \A e \in tree :
      e.type = DT_REG /\ e.rec # RecordedRec
        => \E f \in d.files : f.dir = Parent(e.path) /\ f.name = Last(e.path)

Init ==
    /\ fs \in LiveTrees
    /\ db \in {createDB(t) : t \in RecordedTrees(MaxEntries - Cardinality(fs))}
                \cup {createDB(fs)}
    /\ ReadOrCanonical(fs, db)
    /\ pc = "start"
    /\ stack = <<>>
    /\ dirHandles = {}
    /\ dbDirs = {}
    /\ ctxs = <<>>
    /\ log = <<>>
    /\ handlerCalls = <<>>
    /\ calls = <<>>
    /\ denied = {}
    /\ thrown = "none"
    /\ hashed = {}
    /\ pfIdle /\ mainIdle /\ cfIdle

\* ------------------------------------------------------------- verifyDir
\* EventHandler's constructor reads the directory set; scanFiles is called
\* for the root with relDir "".
verifyDirStart ==
    /\ pc = "start"
    /\ dbDirs' = getDirs(db)
    /\ stack' = <<Frame(<<>>, "open", {})>>
    /\ pc' = "scan"
    /\ UNCHANGED <<others, hashed, fs, db, dirHandles, ctxs, log, handlerCalls, calls, denied, thrown>>

\* The activation of scanFiles that returns control to its caller: to the
\* enclosing scanFiles, or to verifyDir when it is the root's.
Return(s) == /\ stack' = Pop(s)
             /\ pc' = IF Len(s) = 1 THEN "postwalk" ELSE "scan"

\* EventHandler::dirStart.
dirStartDbDirs(dirs, relDir) == dirs \ {relDir}
\* Variant: every dirStart fetches the expectation of the root directory.
dirStartCtxsOfRoot(cs, relDir) == Append(cs, getFiles(db, <<>>))

dirStartCtxs(cs, relDir) == Append(cs, getFiles(db, relDir))

\* opendir succeeds: dirStart is called and the readdir loop begins.
opendirOk ==
    /\ pc = "scan"
    /\ Top(stack).at = "open"
    /\ LET relDir == Top(stack).relDir
       IN  /\ dirHandles' = dirHandles \cup {relDir}
           /\ dbDirs' = dirStartDbDirs(dbDirs, relDir)
           /\ ctxs' = dirStartCtxs(ctxs, relDir)
           /\ calls' = Append(calls, Call("dirStart", relDir, ""))
           /\ stack' = SetTop(stack, Frame(relDir, "loop", Listing(fs, relDir)))
    /\ UNCHANGED <<others, hashed, fs, db, pc, log, handlerCalls, denied, thrown>>

\* Variant: EACCES is thrown like any other errno.
opendirDeniedThrows ==
    /\ pc = "scan"
    /\ Top(stack).at = "open"
    /\ denied' = denied \cup {Top(stack).relDir}
    /\ stack' = <<>>
    /\ pc' = "aborted"
    /\ thrown' = "opendir"
    /\ UNCHANGED <<others, hashed, fs, db, dirHandles, dbDirs, ctxs, log, handlerCalls, calls>>

\* opendir fails with EACCES: logged, scanFiles returns.
opendirDenied ==
    /\ pc = "scan"
    /\ Top(stack).at = "open"
    /\ denied' = denied \cup {Top(stack).relDir}
    /\ Return(stack)
    /\ UNCHANGED <<others, hashed, fs, db, dirHandles, dbDirs, ctxs, log, handlerCalls, calls, thrown>>

\* opendir fails with another errno: it is thrown through every activation
\* and through verifyDir.
opendirFail ==
    /\ pc = "scan"
    /\ Top(stack).at = "open"
    /\ stack' = <<>>
    /\ pc' = "aborted"
    /\ thrown' = "opendir"
    /\ UNCHANGED <<others, hashed, fs, db, dirHandles, dbDirs, ctxs, log, handlerCalls, calls, denied>>

\* ---------------------------------------------------- EventHandler::file
\* relativePath of the file: relDir, '/' unless relDir is empty, fileName.
relativePath(relDir, fileName) == Append(relDir, fileName)

\* Variant: the timestamp comparison is left out.
fileMismatchesNoTimestamp(expectedFileRecord, fileRecord, path) ==
    (IF expectedFileRecord.fileSize # fileRecord.fileSize
        THEN <<Event("SizeMismatch", path)>> ELSE <<>>)
    \o (IF fileRecord.md5Digest # expectedFileRecord.md5Digest
        THEN <<Event("DigestMismatch", path)>> ELSE <<>>)

\* Variant: the digest is compared and reported before the size.
fileMismatchesDigestFirst(expectedFileRecord, fileRecord, path) ==
    (IF fileRecord.md5Digest # expectedFileRecord.md5Digest
        THEN <<Event("DigestMismatch", path)>> ELSE <<>>)
    \o (IF expectedFileRecord.fileSize # fileRecord.fileSize
        THEN <<Event("SizeMismatch", path)>> ELSE <<>>)
    \o (IF millis(expectedFileRecord.lastModifiedTS) # millis(fileRecord.lastModifiedTS)
        THEN <<Event("TimestampMismatch", path)>> ELSE <<>>)

\* The three comparisons of the expected and the live record, in code order.
fileMismatches(expectedFileRecord, fileRecord, path) ==
    (IF expectedFileRecord.fileSize # fileRecord.fileSize
        THEN <<Event("SizeMismatch", path)>> ELSE <<>>)
    \o (IF millis(expectedFileRecord.lastModifiedTS) # millis(fileRecord.lastModifiedTS)
        THEN <<Event("TimestampMismatch", path)>> ELSE <<>>)
    \o (IF fileRecord.md5Digest # expectedFileRecord.md5Digest
        THEN <<Event("DigestMismatch", path)>> ELSE <<>>)

\* Variant: a file that is not expected is not reported.
fileLogIgnoresNew(ctx, tree, relDir, fileName) ==
    IF fileName \notin DOMAIN ctx
    THEN <<>>
    ELSE fileMismatches(ctx[fileName],
                        fillFileRecord(tree, relativePath(relDir, fileName)),
                        relativePath(relDir, fileName))

\* What file() logs for fileName, given the top expectation ctx.
fileLog(ctx, tree, relDir, fileName) ==
    IF fileName \notin DOMAIN ctx
    THEN <<Event("NewFileFound", relativePath(relDir, fileName))>>
    ELSE fileMismatches(ctx[fileName],
                        fillFileRecord(tree, relativePath(relDir, fileName)),
                        relativePath(relDir, fileName))

\* Variant: the whole expectation is cleared when an entry is found.
fileCtxClears(ctx, fileName) == [n \in {} |-> NoRec]

\* Variant: the entry found stays in the expectation.
fileCtxKeepsEntry(ctx, fileName) == ctx

\* The top expectation after file(): the entry found is erased.
fileCtx(ctx, fileName) == [n \in DOMAIN ctx \ {fileName} |-> ctx[n]]

\* Variant: fillFileRecord is called before the name is looked up.
fileHashedAlways(ctx, h, relDir, fileName) == h \cup {relativePath(relDir, fileName)}

\* The files fillFileRecord has been called for after file(): it is called
\* only past the return for a name that is not in the expectation.
fileHashed(ctx, h, relDir, fileName) ==
    IF fileName \notin DOMAIN ctx THEN h ELSE h \cup {relativePath(relDir, fileName)}

\* Variant: a file() that logged anything ends the walk.
readdirFileStopsOnMismatch ==
    /\ pc = "scan"
    /\ Top(stack).at = "loop"
    /\ \E name \in NextNames(Top(stack).dirp) :
         LET relDir == Top(stack).relDir
             events == fileLog(Top(ctxs), fs, relDir, name)
         IN  /\ d_type(fs, relDir, name) = DT_REG
             /\ calls' = Append(calls, Call("file", relDir, name))
             /\ log' = log \o events
             /\ hashed' = fileHashed(Top(ctxs), hashed, relDir, name)
             /\ ctxs' = SetTop(ctxs, fileCtx(Top(ctxs), name))
             /\ IF events = <<>>
                THEN /\ stack' = SetTop(stack, Frame(relDir, "loop", Top(stack).dirp \ {name}))
                     /\ pc' = pc
                ELSE /\ stack' = <<>>
                     /\ pc' = "aborted"
    /\ UNCHANGED <<others, fs, db, dirHandles, dbDirs, handlerCalls, denied, thrown>>

\* readdir returns a regular file: file() runs to its end.
readdirFile ==
    /\ pc = "scan"
    /\ Top(stack).at = "loop"
    /\ \E name \in NextNames(Top(stack).dirp) :
         LET relDir == Top(stack).relDir
         IN  /\ d_type(fs, relDir, name) = DT_REG
             /\ calls' = Append(calls, Call("file", relDir, name))
             /\ log' = log \o fileLog(Top(ctxs), fs, relDir, name)
             /\ hashed' = fileHashed(Top(ctxs), hashed, relDir, name)
             /\ ctxs' = SetTop(ctxs, fileCtx(Top(ctxs), name))
             /\ stack' = SetTop(stack, Frame(relDir, "loop", Top(stack).dirp \ {name}))
    /\ UNCHANGED <<others, fs, db, pc, dirHandles, dbDirs, handlerCalls, denied, thrown>>

\* readdir returns a regular file that the database expects, and
\* fillFileRecord throws (the file cannot be opened or read): the error
\* leaves file(), every scanFiles activation and verifyDir.
readdirFileFails ==
    /\ pc = "scan"
    /\ Top(stack).at = "loop"
    /\ \E name \in NextNames(Top(stack).dirp) :
         LET relDir == Top(stack).relDir
         IN  /\ d_type(fs, relDir, name) = DT_REG
             /\ name \in DOMAIN Top(ctxs)
             /\ hashed' = fileHashed(Top(ctxs), hashed, relDir, name)
             /\ calls' = Append(calls, Call("file", relDir, name))
    /\ stack' = <<>>
    /\ pc' = "aborted"
    /\ thrown' = "file"
    /\ UNCHANGED <<others, fs, db, dirHandles, dbDirs, ctxs, log, handlerCalls, denied>>

\* -------------------------------------------------- scanFiles, the loop
\* readdir returns "." or "..": skipped.
readdirDot ==
    /\ pc = "scan"
    /\ Top(stack).at = "loop"
    /\ \E name \in NextNames(Top(stack).dirp) \cap DotNames :
         stack' = SetTop(stack, Frame(Top(stack).relDir, "loop", Top(stack).dirp \ {name}))
    /\ UNCHANGED <<others, hashed, fs, db, pc, dirHandles, dbDirs, ctxs, log, handlerCalls, calls, denied, thrown>>

\* Variant: the nested relDir is the name alone.
innerRelDirNameOnly(relDir, name) == <<name>>

\* The relDir argument of the nested call: relDir, '/' unless relDir is
\* empty, name.
innerRelDir(relDir, name) == Append(relDir, name)

\* readdir returns a directory: scanFiles is called for it.
readdirDir ==
    /\ pc = "scan"
    /\ Top(stack).at = "loop"
    /\ \E name \in NextNames(Top(stack).dirp) \ DotNames :
         LET relDir == Top(stack).relDir
         IN  /\ d_type(fs, relDir, name) = DT_DIR
             /\ stack' = Append(SetTop(stack, Frame(relDir, "loop", Top(stack).dirp \ {name})),
                                Frame(innerRelDir(relDir, name), "open", {}))
    /\ UNCHANGED <<others, hashed, fs, db, pc, dirHandles, dbDirs, ctxs, log, handlerCalls, calls, denied, thrown>>

\* readdir returns an entry that is neither: skipped.
readdirOther ==
    /\ pc = "scan"
    /\ Top(stack).at = "loop"
    /\ \E name \in NextNames(Top(stack).dirp) :
         LET relDir == Top(stack).relDir
         IN  /\ d_type(fs, relDir, name) \notin {DT_REG, DT_DIR}
             /\ stack' = SetTop(stack, Frame(relDir, "loop", Top(stack).dirp \ {name}))
    /\ UNCHANGED <<others, hashed, fs, db, pc, dirHandles, dbDirs, ctxs, log, handlerCalls, calls, denied, thrown>>

\* Variant: dirEnd reports nothing.
dirEndLogSilent(ctx, relDir, order) == <<>>

\* EventHandler::dirEnd: one report for every entry left in the top
\* expectation, in the map's iteration order.
dirEndLog(ctx, relDir, order) ==
    [i \in 1..Len(order) |-> Event("FileNotFound", relativePath(relDir, order[i]))]

\* Variant: dirEnd leaves its frame on the stack.
dirEndCtxsNoPop(cs) == cs

\* EventHandler::dirEnd: the top expectation is popped.
dirEndCtxs(cs) == Pop(cs)

\* readdir returns nullptr: closedir, dirEnd, return.
readdirEnd ==
    /\ pc = "scan"
    /\ Top(stack).at = "loop"
    /\ Top(stack).dirp = {}
    /\ LET relDir == Top(stack).relDir
       IN  /\ dirHandles' = dirHandles \ {relDir}
           /\ calls' = Append(calls, Call("dirEnd", relDir, ""))
           /\ \E order \in Orders(DOMAIN Top(ctxs)) :
                log' = log \o dirEndLog(Top(ctxs), relDir, order)
           /\ ctxs' = dirEndCtxs(ctxs)
    /\ Return(stack)
    /\ UNCHANGED <<others, hashed, fs, db, dbDirs, handlerCalls, denied, thrown>>

\* ------------------------------------------------- verifyDir, after the walk
\* Variant: the loop over dbDirs stops after its first element.
missingDirLogFirstOnly(order) ==
    IF order = <<>> THEN <<>> ELSE <<Event("DirNotFound", order[1])>>

\* The loop over dbDirs after the walk, in the set's iteration order.
missingDirLog(order) == [i \in 1..Len(order) |-> Event("DirNotFound", order[i])]

\* Every directory left in dbDirs is logged; nothing is passed to the caller.
verifyDirFinish ==
    /\ pc = "postwalk"
    /\ \E order \in Orders(dbDirs) : log' = log \o missingDirLog(order)
    /\ pc' = "done"
    /\ UNCHANGED <<others, hashed, fs, db, stack, dirHandles, dbDirs, ctxs, handlerCalls, calls, denied, thrown>>

Next ==
    \/ verifyDirStart
    \/ opendirOk
    \/ opendirDenied
    \/ opendirFail
    \/ readdirFile
    \/ readdirFileFails
    \/ readdirDot
    \/ readdirDir
    \/ readdirOther
    \/ readdirEnd
    \/ verifyDirFinish

Spec == Init /\ [][Next]_vars

\* verifyDir is one sequential call: as long as a step of it is possible, a
\* step is taken.
FairSpec == Spec /\ WF_vars(Next)

\* ------------------------------------------------ _helper::processFile
\* char buf[4096]
BUFSIZE == 4096
\* The longest file read, in whole buffers.
MaxChunks == 2
\* File lengths around the multiples of the buffer size.
FileLengths == {k * BUFSIZE + r : k \in 0..MaxChunks, r \in {0, 1, BUFSIZE - 1}}

\* handleOpenFileError and handleReadFileError do not return: each throws
\* the fatal error of its kind.
handleOpenFileError == "open"
handleReadFileError == "read"

InitProcessFile ==
    /\ pfPc = "open"
    /\ pfLeft \in FileLengths
    /\ pfFile = "null"
    /\ fcloseCalls = 0
    /\ chunks = <<>>
    /\ pfThrown = "none"
    /\ pfLogged = FALSE
    /\ walkIdle /\ mainIdle /\ cfIdle

\* openFile: fopen returns a handle.
openFileOk ==
    /\ pfPc = "open"
    /\ pfFile' = "open"
    /\ pfPc' = "read"
    /\ UNCHANGED <<walkVars, mainVars, cfVars, pfLeft, fcloseCalls, chunks, pfThrown, pfLogged>>

\* openFile: fopen returns nullptr; handleOpenFileError does not return.
openFileFails ==
    /\ pfPc = "open"
    /\ pfThrown' = handleOpenFileError
    /\ pfPc' = "thrown"
    /\ UNCHANGED <<walkVars, mainVars, cfVars, pfLeft, pfFile, fcloseCalls, chunks, pfLogged>>

\* fread fills the buffer and chunkOp returns.
freadFull ==
    /\ pfPc = "read"
    /\ pfLeft >= BUFSIZE
    /\ chunks' = Append(chunks, BUFSIZE)
    /\ pfLeft' = pfLeft - BUFSIZE
    /\ UNCHANGED <<walkVars, mainVars, cfVars, pfPc, pfFile, fcloseCalls, pfThrown, pfLogged>>

\* fread returns less than the buffer at the end of the file and chunkOp
\* returns: the loop is left.
freadEof ==
    /\ pfPc = "read"
    /\ pfLeft < BUFSIZE
    /\ chunks' = Append(chunks, pfLeft)
    /\ pfLeft' = 0
    /\ pfPc' = "close"
    /\ UNCHANGED <<walkVars, mainVars, cfVars, pfFile, fcloseCalls, pfThrown, pfLogged>>

\* fread returns (a full buffer or the rest of the file) and chunkOp throws.
chunkOpThrows ==
    /\ pfPc = "read"
    /\ pfThrown' = "chunkOp"
    /\ pfPc' = "catch"
    /\ UNCHANGED <<walkVars, mainVars, cfVars, pfLeft, pfFile, fcloseCalls, chunks, pfLogged>>

\* fread returns less than the buffer and feof is false;
\* handleReadFileError does not return.
freadFails ==
    /\ pfPc = "read"
    /\ pfThrown' = handleReadFileError
    /\ pfPc' = "catch"
    /\ UNCHANGED <<walkVars, mainVars, cfVars, pfLeft, pfFile, fcloseCalls, chunks, pfLogged>>

\* Variant: the exception leaves processFile with no catch block around the loop.
catchNoClose ==
    /\ pfPc = "catch"
    /\ pfPc' = "thrown"
    /\ UNCHANGED <<walkVars, mainVars, cfVars, pfLeft, pfFile, fcloseCalls, chunks, pfThrown, pfLogged>>

\* catch (...): fclose, logError if it failed, rethrow.
catchClose ==
    /\ pfPc = "catch"
    /\ fcloseCalls' = fcloseCalls + 1
    /\ pfFile' = "closed"
    /\ \E failed \in BOOLEAN : pfLogged' = failed
    /\ pfPc' = "thrown"
    /\ UNCHANGED <<walkVars, mainVars, cfVars, pfLeft, chunks, pfThrown>>

\* After the loop: fclose returns 0.
fcloseOk ==
    /\ pfPc = "close"
    /\ fcloseCalls' = fcloseCalls + 1
    /\ pfFile' = "closed"
    /\ pfPc' = "returned"
    /\ UNCHANGED <<walkVars, mainVars, cfVars, pfLeft, chunks, pfThrown, pfLogged>>

\* After the loop: fclose fails and errno is thrown, outside the try block.
fcloseFails ==
    /\ pfPc = "close"
    /\ fcloseCalls' = fcloseCalls + 1
    /\ pfFile' = "closed"
    /\ pfThrown' = "close"
    /\ pfPc' = "thrown"
    /\ UNCHANGED <<walkVars, mainVars, cfVars, pfLeft, chunks, pfLogged>>

NextProcessFile ==
    \/ openFileOk
    \/ openFileFails
    \/ freadFull
    \/ freadEof
    \/ chunkOpThrows
    \/ freadFails
    \/ catchClose
    \/ fcloseOk
    \/ fcloseFails

SpecProcessFile == InitProcessFile /\ [][NextProcessFile]_vars

\* ------------------------------------------------------------------ main
\* How many options the command line holds at most.
MaxOpts == 2
\* What getopt_long returns for an option, with the argument of --tool.
OptTokens == {"d", "h", "v", "?", "t:create-db", "t:verify-dir", "t:merge-dir", "t:other"}
RECURSIVE OptSeqs(_)
OptSeqs(n) ==
    IF n = 0 THEN {<<>>}
    ELSE OptSeqs(n - 1) \cup {Append(q, o) : q \in {x \in OptSeqs(n - 1) : Len(x) = n - 1}, o \in OptTokens}
\* What is caught by main's handlers, and the int errno that is not.
Exceptions == {"std::exception", "const char*", "int"}

InitMain ==
    /\ mainPc = "getopt"
    /\ opts \in OptSeqs(MaxOpts)
    /\ operands \in 0..3
    /\ ndebug \in BOOLEAN
    /\ tool = "undefined"
    /\ toolDefined = FALSE
    /\ dbDefined = FALSE
    /\ dbHandle = "unopened"
    /\ closeCalls = 0
    /\ inFlight = "none"
    /\ exit = "none"
    /\ walkIdle /\ pfIdle /\ cfIdle

\* return from main with the status.
Exit(status) == mainPc' = "exited" /\ exit' = status

\* case 'd'
getoptDb ==
    /\ mainPc = "getopt" /\ opts # <<>> /\ Head(opts) = "d"
    /\ dbDefined' = TRUE
    /\ opts' = Tail(opts)
    /\ UNCHANGED <<walkVars, pfVars, cfVars, mainPc, operands, ndebug, tool, toolDefined,
                    dbHandle, closeCalls, inFlight, exit>>

\* case 'h' and case 'v': usage or version is printed, return 0.
getoptInfo ==
    /\ mainPc = "getopt" /\ opts # <<>> /\ Head(opts) \in {"h", "v"}
    /\ Exit("0")
    /\ UNCHANGED <<walkVars, pfVars, cfVars, opts, operands, ndebug, tool, toolDefined,
                    dbDefined, dbHandle, closeCalls, inFlight>>

\* case 't' with a tool name.
getoptTool ==
    /\ mainPc = "getopt" /\ opts # <<>>
    /\ Head(opts) \in {"t:create-db", "t:verify-dir", "t:merge-dir"}
    /\ tool' = CASE Head(opts) = "t:create-db" -> "createDB"
                  [] Head(opts) = "t:verify-dir" -> "verifyDir"
                  [] Head(opts) = "t:merge-dir" -> "mergeDir"
    /\ toolDefined' = TRUE
    /\ opts' = Tail(opts)
    /\ UNCHANGED <<walkVars, pfVars, cfVars, mainPc, operands, ndebug, dbDefined,
                    dbHandle, closeCalls, inFlight, exit>>

\* case 't' with another argument, and case '?': return 1.
getoptBad ==
    /\ mainPc = "getopt" /\ opts # <<>> /\ Head(opts) \in {"t:other", "?"}
    /\ Exit("1")
    /\ UNCHANGED <<walkVars, pfVars, cfVars, opts, operands, ndebug, tool, toolDefined,
                    dbDefined, dbHandle, closeCalls, inFlight>>

\* getopt_long returned -1: the checks of the operands, the tool and the DB.
argumentsOk ==
    /\ operands # 0
    /\ operands <= 2
    /\ ~(tool = "mergeDir" /\ operands > 1)
    /\ toolDefined
    /\ dbDefined

checkArguments ==
    /\ mainPc = "getopt" /\ opts = <<>>
    /\ IF argumentsOk THEN mainPc' = "open" /\ exit' = exit ELSE Exit("1")
    /\ UNCHANGED <<walkVars, pfVars, cfVars, opts, operands, ndebug, tool, toolDefined,
                    dbDefined, dbHandle, closeCalls, inFlight>>

\* FileDB::open returns the database.
openDb ==
    /\ mainPc = "open"
    /\ dbHandle' = "open"
    /\ mainPc' = "tool"
    /\ UNCHANGED <<walkVars, pfVars, cfVars, opts, operands, ndebug, tool, toolDefined,
                    dbDefined, closeCalls, inFlight, exit>>

\* FileDB::open throws: no database object exists, the inner try is not entered.
openDbThrows ==
    /\ mainPc = "open"
    /\ \E ex \in Exceptions : inFlight' = ex
    /\ mainPc' = "handlers"
    /\ UNCHANGED <<walkVars, pfVars, cfVars, opts, operands, ndebug, tool, toolDefined,
                    dbDefined, dbHandle, closeCalls, exit>>

\* createDB or verifyDir returns.
toolReturns ==
    /\ mainPc = "tool"
    /\ tool \in {"createDB", "verifyDir"}
    /\ mainPc' = "close"
    /\ UNCHANGED <<walkVars, pfVars, cfVars, opts, operands, ndebug, tool, toolDefined,
                    dbDefined, dbHandle, closeCalls, inFlight, exit>>

\* createDB or verifyDir throws.
toolThrows ==
    /\ mainPc = "tool"
    /\ tool \in {"createDB", "verifyDir"}
    /\ \E ex \in Exceptions : inFlight' = ex
    /\ mainPc' = "catch"
    /\ UNCHANGED <<walkVars, pfVars, cfVars, opts, operands, ndebug, tool, toolDefined,
                    dbDefined, dbHandle, closeCalls, exit>>

\* case tool::mergeDir: assert(false) aborts the process, or with NDEBUG is
\* empty and the switch is left through default.
mergeDirAssert ==
    /\ mainPc = "tool"
    /\ tool = "mergeDir"
    /\ IF ndebug THEN mainPc' = "close" /\ exit' = exit ELSE Exit("abort")
    /\ UNCHANGED <<walkVars, pfVars, cfVars, opts, operands, ndebug, tool, toolDefined,
                    dbDefined, dbHandle, closeCalls, inFlight>>

\* Variant: the exception of the tool passes through with no inner catch.
catchAllRethrows ==
    /\ mainPc = "catch"
    /\ mainPc' = "handlers"
    /\ UNCHANGED <<walkVars, pfVars, cfVars, opts, operands, ndebug, tool, toolDefined,
                    dbDefined, dbHandle, closeCalls, inFlight, exit>>

\* catch (...) { db.close(); throw; }: close returns and the exception is
\* rethrown, or close throws and its exception goes on instead.
catchAll ==
    /\ mainPc = "catch"
    /\ closeCalls' = closeCalls + 1
    /\ dbHandle' = "closed"
    /\ \E ex \in Exceptions \cup {"none"} :
         inFlight' = IF ex = "none" THEN inFlight ELSE ex
    /\ mainPc' = "handlers"
    /\ UNCHANGED <<walkVars, pfVars, cfVars, opts, operands, ndebug, tool, toolDefined,
                    dbDefined, exit>>

\* db.close(); return 0; after the inner try, or close throws.
closeDb ==
    /\ mainPc = "close"
    /\ closeCalls' = closeCalls + 1
    /\ dbHandle' = "closed"
    /\ \E ex \in Exceptions \cup {"none"} :
         IF ex = "none"
         THEN Exit("0") /\ inFlight' = inFlight
         ELSE mainPc' = "handlers" /\ inFlight' = ex /\ exit' = exit
    /\ UNCHANGED <<walkVars, pfVars, cfVars, opts, operands, ndebug, tool, toolDefined,
                    dbDefined>>

\* The handlers of main's function-try-block: std::exception and
\* const char* are reported and 1 is returned; anything else is not caught.
handlers ==
    /\ mainPc = "handlers"
    /\ Exit(IF inFlight \in {"std::exception", "const char*"} THEN "1" ELSE "terminate")
    /\ UNCHANGED <<walkVars, pfVars, cfVars, opts, operands, ndebug, tool, toolDefined,
                    dbDefined, dbHandle, closeCalls, inFlight>>

NextMain ==
    \/ getoptDb
    \/ getoptInfo
    \/ getoptTool
    \/ getoptBad
    \/ checkArguments
    \/ openDb
    \/ openDbThrows
    \/ toolReturns
    \/ toolThrows
    \/ mergeDirAssert
    \/ catchAll
    \/ closeDb
    \/ handlers

SpecMain == InitMain /\ [][NextMain]_vars

\* ------------------------------ VerifyDirMismatchHandler::checkFileMismatch
\* mirror::FileType
FileTypes == {"file", "dir"}
\* mirror::FileRecord with its type.
TypedRecs == [type : FileTypes, fileSize : Sizes, lastModifiedTS : Stamps, md5Digest : Digests]

\* The field reports of checkFileMismatch, in code order, under the line
\* "Mismatch for the file" that precedes them when any field differs.
fieldReports(expectedFileRecord, actualFileRecord) ==
    LET sizeMismatch == expectedFileRecord.fileSize # actualFileRecord.fileSize
        lastModMismatch ==
            millis(expectedFileRecord.lastModifiedTS) # millis(actualFileRecord.lastModifiedTS)
        digestMismatch == actualFileRecord.md5Digest # expectedFileRecord.md5Digest
        match == ~sizeMismatch /\ ~lastModMismatch /\ ~digestMismatch
    IN  [fullMatch |-> match,
         log |-> IF match THEN <<>>
                 ELSE <<"Mismatch">>
                      \o (IF sizeMismatch THEN <<"SizeMismatch">> ELSE <<>>)
                      \o (IF lastModMismatch THEN <<"TimestampMismatch">> ELSE <<>>)
                      \o (IF digestMismatch THEN <<"DigestMismatch">> ELSE <<>>)]

\* Variant: the fields are compared although the types differ ("if" in place
\* of "else if").
checkFileMismatchNoElse(expectedFileRecord, actualFileRecord) ==
    LET typeLog == IF expectedFileRecord.type # actualFileRecord.type
                   THEN <<"TypeMismatch">> ELSE <<>>
    IN  IF actualFileRecord.type = "file"
        THEN [fullMatch |-> fieldReports(expectedFileRecord, actualFileRecord).fullMatch,
              log |-> typeLog \o fieldReports(expectedFileRecord, actualFileRecord).log]
        ELSE [fullMatch |-> typeLog = <<>>, log |-> typeLog]

\* checkFileMismatch: the value returned and what is logged.
checkFileMismatch(expectedFileRecord, actualFileRecord) ==
    IF expectedFileRecord.type # actualFileRecord.type
    THEN [fullMatch |-> FALSE, log |-> <<"TypeMismatch">>]
    ELSE IF actualFileRecord.type = "file"
         THEN fieldReports(expectedFileRecord, actualFileRecord)
         ELSE [fullMatch |-> TRUE, log |-> <<>>]

InitCheck ==
    /\ cfExpected \in TypedRecs
    /\ cfActual \in TypedRecs
    /\ cfPc = "call"
    /\ fullMatch = TRUE
    /\ cfLog = <<>>
    /\ walkIdle /\ pfIdle /\ mainIdle

\* One call of checkFileMismatch with the two records.
checkFileMismatchCall ==
    /\ cfPc = "call"
    /\ fullMatch' = checkFileMismatch(cfExpected, cfActual).fullMatch
    /\ cfLog' = checkFileMismatch(cfExpected, cfActual).log
    /\ cfPc' = "returned"
    /\ UNCHANGED <<walkVars, pfVars, mainVars, cfExpected, cfActual>>

NextCheck == checkFileMismatchCall

SpecCheck == InitCheck /\ [][NextCheck]_vars

TypeOK ==
    /\ pc \in {"start", "scan", "postwalk", "done", "aborted"}
    /\ thrown \in {"none", "opendir", "file"}
    /\ (pc = "aborted") = (thrown # "none")
    /\ dbDirs \subseteq db.dirs
    /\ hashed \subseteq {e.path : e \in fs}
    /\ \A i \in 1..Len(stack) : stack[i].dirp \subseteq Names \cup DotNames

\* ---------------------------------------------------- reading the traces
FieldTypes == {"SizeMismatch", "TimestampMismatch", "DigestMismatch"}

\* How many times the event was logged.
CountLog(t, p) == Cardinality({i \in DOMAIN log : log[i] = Event(t, p)})
\* How many events of the type were logged for entries of directory d.
CountIn(t, d) ==
    Cardinality({i \in DOMAIN log : log[i].type = t /\ Len(log[i].path) > 0
                                      /\ Parent(log[i].path) = d})
CountCall(op, d, n) == Cardinality({i \in DOMAIN calls : calls[i] = Call(op, d, n)})

\* The directories dirStart was called for.
Entered == {calls[i].relDir : i \in {j \in DOMAIN calls : calls[j].op = "dirStart"}}
\* The directories of the live tree, the root among them.
LiveDirs == {<<>>} \cup {e.path : e \in {x \in fs : x.type = DT_DIR}}
\* The regular files of the live directory d.
LiveFiles(d) == {Last(e.path) : e \in {x \in Children(fs, d) : x.type = DT_REG}}
\* The names the database expects in directory d.
Recorded(d) == DOMAIN getFiles(db, d)
Walked == pc \in {"postwalk", "done"}

\* ------------------------------------------------------------------- C1
\* C1: a database recorded from the live tree, all directories readable:
\* verifyDir over the same tree reports nothing at all.
RoundTrip ==
    (pc = "done" /\ db = createDB(fs) /\ denied = {}) => log = <<>>

WitnessRoundTrip ==
    /\ pc = "done" /\ db = createDB(fs) /\ denied = {} /\ log = <<>>
    /\ \E e \in fs : e.type = DT_REG /\ Len(e.path) = 2 /\ e.rec # RecordedRec
    /\ \E e \in fs : e.type = DT_REG /\ Len(e.path) = 1
    /\ CountCall("dirEnd", <<>>, "") = 1

\* ------------------------------------------------------------------- C2
\* C2: a is recorded in d and not in the live d, b is a regular file of the
\* live d and not recorded: one FileNotFound for a, one NewFileFound for b,
\* no size, timestamp or digest event for either.
RenameCase(d, a, b) ==
    /\ a \in Recorded(d) /\ a \notin ChildNames(fs, d)
    /\ b \in LiveFiles(d) /\ b \notin Recorded(d)

RenameDetection ==
    pc = "done" =>
      \A d \in Entered : \A a \in Names : \A b \in Names :
        RenameCase(d, a, b) =>
          /\ CountLog("FileNotFound", relativePath(d, a)) = 1
          /\ CountLog("NewFileFound", relativePath(d, b)) = 1
          /\ \A t \in FieldTypes : /\ CountLog(t, relativePath(d, a)) = 0
                                   /\ CountLog(t, relativePath(d, b)) = 0

WitnessRename ==
    /\ pc = "done"
    /\ \E d \in Entered : \E a \in Names : \E b \in Names :
         /\ RenameCase(d, a, b)
         /\ fillFileRecord(fs, relativePath(d, b)) = getFiles(db, d)[a]
         /\ CountLog("FileNotFound", relativePath(d, a)) = 1
         /\ CountLog("NewFileFound", relativePath(d, b)) = 1

\* ------------------------------------------------------------------- C3
\* C3: a regular file that is recorded and live gets one event for each of
\* size, timestamp (in milliseconds) and digest that differs, none for a
\* field that is equal, and neither NewFileFound nor FileNotFound.
Differs(t, expected, actual) ==
    IF t = "SizeMismatch" THEN expected.fileSize # actual.fileSize
    ELSE IF t = "TimestampMismatch" THEN expected.lastModifiedTS # actual.lastModifiedTS
    ELSE expected.md5Digest # actual.md5Digest

FieldIsolation ==
    pc = "done" =>
      \A d \in Entered : \A n \in LiveFiles(d) \cap Recorded(d) :
        LET expected == getFiles(db, d)[n]
            actual == (CHOOSE e \in fs : e.path = relativePath(d, n)).rec
        IN  /\ \A t \in FieldTypes :
                 CountLog(t, relativePath(d, n)) = IF Differs(t, expected, actual) THEN 1 ELSE 0
            /\ CountLog("NewFileFound", relativePath(d, n)) = 0
            /\ CountLog("FileNotFound", relativePath(d, n)) = 0

\* A file recorded with size 10 and digest D1 is live with size 12 and
\* digest D2 and the recorded timestamp: two events, size and digest.
WitnessFieldIsolation ==
    /\ pc = "done"
    /\ \E d \in Entered : \E n \in LiveFiles(d) \cap Recorded(d) :
         /\ getFiles(db, d)[n] = [fileSize |-> 10, lastModifiedTS |-> 1, md5Digest |-> "D1"]
         /\ fillFileRecord(fs, relativePath(d, n)) = [fileSize |-> 12, lastModifiedTS |-> 1, md5Digest |-> "D2"]
         /\ log = <<Event("SizeMismatch", relativePath(d, n)), Event("DigestMismatch", relativePath(d, n))>>

\* ------------------------------------------------------------------- C4
\* The children of d that file() found in the expectation when visited.
Matched(d) ==
    Cardinality({i \in DOMAIN calls : /\ calls[i].op = "file" /\ calls[i].relDir = d
                                      /\ calls[i].name \in Recorded(d)})
Accounted(d) == CountIn("NewFileFound", d) + Matched(d) + CountIn("FileNotFound", d)

\* C4 as written: for every directory entered, NewFileFound + matched +
\* FileNotFound equals the size of (live children of d) union (children the
\* database expects under d).
DirAccountingAllChildren ==
    pc = "done" =>
      \A d \in Entered : Accounted(d) = Cardinality(ChildNames(fs, d) \cup Recorded(d))

\* C4 amended: the same sum equals the size of (live regular files of d)
\* union (children the database expects under d).
DirAccounting ==
    pc = "done" =>
      \A d \in Entered : Accounted(d) = Cardinality(LiveFiles(d) \cup Recorded(d))

WitnessDirAccounting ==
    /\ pc = "done"
    /\ \E d \in Entered :
         /\ Matched(d) = 1 /\ Accounted(d) = 1
         /\ ~(ChildNames(fs, d) \subseteq LiveFiles(d) \cup Recorded(d))

\* ------------------------------------------------------------------- C5
\* C5: n is recorded as a file in d and the live d has a directory n: one
\* kind-mismatch event for n and no size, timestamp or digest event for n.
KindChangeCase(d, n) ==
    /\ n \in Recorded(d)
    /\ n \in ChildNames(fs, d)
    /\ ChildEntry(fs, d, n).type = DT_DIR

KindChange ==
    pc = "done" =>
      \A d \in Entered : \A n \in Names :
        KindChangeCase(d, n) =>
          /\ CountLog("TypeMismatch", relativePath(d, n)) = 1
          /\ \A t \in FieldTypes : CountLog(t, relativePath(d, n)) = 0

\* ------------------------------------------------------------------- C6
\* s is a recorded directory, nothing is at s in the live tree, and the
\* walker entered the parent of s.
MissingDirCase(s) ==
    /\ s \in db.dirs /\ s # <<>>
    /\ \A e \in fs : e.path # s
    /\ Parent(s) \in Entered

\* C6 as written: exactly one DirNotFound event, for s itself, and no event
\* for any file or directory recorded below s.
MissingDirOnlyItself ==
    pc = "done" =>
      \A s \in db.dirs :
        MissingDirCase(s) =>
          /\ CountLog("DirNotFound", s) = 1
          /\ \A i \in DOMAIN log : IsPrefix(s, log[i].path) => log[i] = Event("DirNotFound", s)

\* C6 amended: exactly one DirNotFound event for s and exactly one for every
\* directory recorded below s, and no event for any file recorded below s.
MissingDir ==
    pc = "done" =>
      \A s \in db.dirs :
        MissingDirCase(s) =>
          /\ \A q \in db.dirs : IsPrefix(s, q) => CountLog("DirNotFound", q) = 1
          /\ \A i \in DOMAIN log :
               IsPrefix(s, log[i].path) => log[i].type = "DirNotFound" /\ log[i].path \in db.dirs

WitnessMissingDir ==
    /\ pc = "done"
    /\ \E s \in db.dirs :
         /\ MissingDirCase(s)
         /\ \E q \in db.dirs : q # s /\ IsPrefix(s, q) /\ CountLog("DirNotFound", q) = 1
         /\ \E f \in db.files : IsPrefix(s, f.dir)
         /\ CountLog("DirNotFound", s) = 1

\* ------------------------------------------------------------------- C7
\* The part of C7 that holds: dbDirs is the recorded directories less those
\* the walker has entered.
DirSetTracksEntered ==
    pc \in {"scan", "postwalk", "done"} => dbDirs = db.dirs \ Entered

\* C7: dbDirs starts as the directories of the database, loses an entry
\* exactly when the walker enters that directory, and after a walk that
\* completes holds exactly the recorded directories that are not live.
DirSetResidue ==
    /\ DirSetTracksEntered
    /\ Walked => dbDirs = db.dirs \ LiveDirs

\* ------------------------------------------------------------------- C8
\* C8: every discrepancy verifyDir detects is one call on the
\* MismatchHandler the caller supplied.
HandlerDelivery ==
    \A i \in DOMAIN log :
      Cardinality({j \in DOMAIN handlerCalls : handlerCalls[j] = log[i]})
        = CountLog(log[i].type, log[i].path)

\* ------------------------------------------------------------------- C9
\* Nothing was called for a directory opendir was denied for, nor below it;
\* once the walk is over every other entry of an entered directory was
\* processed; an errno thrown by opendir leaves no activation.
OpenFailureState ==
    /\ \A p \in denied : \A i \in DOMAIN calls : ~IsPrefix(p, calls[i].relDir)
    /\ Walked =>
         \A d \in Entered : \A e \in Children(fs, d) :
           /\ e.type = DT_REG => CountCall("file", d, Last(e.path)) = 1
           /\ e.type = DT_DIR => e.path \in denied \cup Entered
    /\ thrown = "opendir" => pc = "aborted" /\ stack = <<>>

\* A step that is an EACCES: the activation returns, nothing is called.
DeniedStep ==
    denied' # denied =>
      /\ stack' = Pop(stack) /\ thrown' = "none" /\ pc' \in {"scan", "postwalk"}
      /\ calls' = calls

\* After opendir has thrown, no callback is made.
AbortedStep == thrown = "opendir" \/ thrown' = "opendir" => calls' = calls

\* C9: access-denied skips the directory and all below it without any
\* callback and the walk goes on with the siblings; any other opendir
\* failure aborts the walk and no callback follows.
OpenFailures == []OpenFailureState /\ [][DeniedStep /\ AbortedStep]_vars

\* A denied directory with an entry below it and a sibling visited after it.
WitnessOpenFailures ==
    /\ pc = "done"
    /\ \E p \in denied :
         /\ \E e \in fs : e.path # p /\ IsPrefix(p, e.path)
         /\ \E n \in LiveFiles(Parent(p)) : CountCall("file", Parent(p), n) = 1
         /\ CountCall("dirEnd", Parent(p), "") = 1

\* ------------------------------------------------------------------ C10
Bad == << <<"?">> >>

\* The directories that are open after the first k callbacks, outermost
\* first; Bad when a callback is out of place.
RECURSIVE OpenAfter(_)
OpenAfter(k) ==
    IF k = 0 THEN <<>>
    ELSE LET st == OpenAfter(k - 1)
             c == calls[k]
         IN  IF st = Bad THEN Bad
             ELSE IF c.op = "dirStart"
                  THEN IF \/ st = <<>> /\ c.relDir = <<>>
                          \/ st # <<>> /\ c.relDir # <<>> /\ Parent(c.relDir) = Top(st)
                       THEN Append(st, c.relDir) ELSE Bad
             ELSE IF st # <<>> /\ Top(st) = c.relDir
                  THEN (IF c.op = "dirEnd" THEN Pop(st) ELSE st)
                  ELSE Bad

\* C10: dirStart and dirEnd are properly nested, each called once for an
\* entered directory, and every regular file is visited once, between the
\* dirStart and the dirEnd of its parent.
Bracketing ==
    /\ OpenAfter(Len(calls)) # Bad
    /\ \A i \in DOMAIN calls : \A j \in DOMAIN calls : calls[i] = calls[j] => i = j
    /\ \A i \in DOMAIN calls :
         calls[i].op = "file" => calls[i].name \in LiveFiles(calls[i].relDir)
    /\ Walked =>
         /\ OpenAfter(Len(calls)) = <<>>
         /\ \A d \in Entered :
              /\ CountCall("dirStart", d, "") = 1 /\ CountCall("dirEnd", d, "") = 1
              /\ \A n \in LiveFiles(d) : CountCall("file", d, n) = 1

\* A walk that entered a directory two levels down and visited a file next
\* to it.
WitnessBracketing ==
    /\ pc = "done"
    /\ \E d \in Entered :
         /\ Len(d) = 2 /\ CountCall("dirEnd", d, "") = 1
         /\ \E n \in LiveFiles(Parent(d)) : CountCall("file", Parent(d), n) = 1

\* ---------------------------------------------------------------------------
\* C11. The mismatch events of one file come in the order kind, size,
\* timestamp, digest: of two mismatch events logged for the same path the
\* earlier one has the lower rank, and every event logged between them is a
\* mismatch event of that same path.

MismatchTypes == {"TypeMismatch"} \cup FieldTypes
Rank(type) ==
    CASE type = "TypeMismatch" -> 0
      [] type = "SizeMismatch" -> 1
      [] type = "TimestampMismatch" -> 2
      [] type = "DigestMismatch" -> 3

EventOrder ==
    \A i, j \in DOMAIN log :
        (/\ i < j
         /\ log[i].type \in MismatchTypes /\ log[j].type \in MismatchTypes
         /\ log[i].path = log[j].path)
        => /\ Rank(log[i].type) < Rank(log[j].type)
           /\ \A k \in i..j : log[k].path = log[i].path /\ log[k].type \in MismatchTypes

\* A file was reported for size, timestamp and digest in a row, and an event
\* of another entry was logged before or after the three.
WitnessEventOrder ==
    \E i \in DOMAIN log :
        /\ i + 2 \in DOMAIN log
        /\ log[i].type = "SizeMismatch"
        /\ log[i + 1] = Event("TimestampMismatch", log[i].path)
        /\ log[i + 2] = Event("DigestMismatch", log[i].path)
        /\ \E k \in DOMAIN log : log[k].path # log[i].path

\* ---------------------------------------------------------------------------
\* C12. Mismatches never stop the walk: unless a fatal I/O error is thrown
\* (opendir fails with an errno other than EACCES, or fillFileRecord fails),
\* verifyDir eventually is done, past the dirEnd of the root and the loop over
\* the directories left in dbDirs; a step that logs an event never aborts the
\* walk; and in a finished walk every regular file of every entered directory
\* was visited and every subdirectory of it was entered or denied.

NothingSkipped ==
    pc = "done" =>
        \A d \in Entered :
            /\ CountCall("dirEnd", d, "") = 1
            /\ \A e \in Children(fs, d) :
                 /\ e.type = DT_REG => CountCall("file", d, Last(e.path)) = 1
                 /\ e.type = DT_DIR => e.path \in Entered \cup denied

LoggingGoesOn == log' # log => pc' # "aborted" /\ thrown' = "none"

WalkCompletes ==
    /\ <>(pc = "done" \/ thrown # "none")
    /\ [][LoggingGoesOn]_vars
    /\ []NothingSkipped

\* A walk is done that logged a mismatch of a file and after it visited
\* another file or entered another directory.
WitnessWalkCompletes ==
    /\ pc = "done"
    /\ \E i \in DOMAIN log, j, k \in DOMAIN calls :
         /\ log[i].type \in FieldTypes
         /\ calls[j] = Call("file", Parent(log[i].path), Last(log[i].path))
         /\ j < k
         /\ calls[k].op \in {"file", "dirStart"}

\* ---------------------------------------------------------------------------
\* C13. processFile releases the file handle: however it is left (return at
\* end of file, read failure, exception of the chunk operation, failure of
\* the close itself), fclose was called exactly once on the handle it opened;
\* while it runs the handle is open and not yet closed; and when the open
\* fails there is no handle and fclose is never called.

processFileLeft == pfPc \in {"returned", "thrown"}

FileHandleRelease ==
    /\ fcloseCalls \in {0, 1}
    /\ (fcloseCalls = 1) = (pfFile = "closed")
    /\ pfPc \in {"read", "catch", "close"} => pfFile = "open"
    /\ (processFileLeft /\ pfThrown # "open") => fcloseCalls = 1
    /\ pfThrown = "open" => pfFile = "null" /\ fcloseCalls = 0
    /\ pfPc = "returned" => pfThrown = "none"
    /\ pfPc = "thrown" => pfThrown \in {"open", "read", "chunkOp", "close"}

\* The chunk operation threw on the second chunk and processFile was left
\* with the handle closed once.
WitnessFileHandleRelease ==
    /\ pfPc = "thrown"
    /\ pfThrown = "chunkOp"
    /\ Len(chunks) = 1
    /\ fcloseCalls = 1
    /\ pfFile = "closed"

\* ---------------------------------------------------------------------------
\* C14. main closes the database once: after FileDB::open succeeded, whenever
\* main is left by a return or by an exception (the tool returned, or the tool
\* or close threw), db.close() has been called exactly once; an exception of
\* the tool reaches main's handlers only after the close; close is never
\* called twice, and never before open succeeded.  (abort() from the
\* assert(false) of merge-dir ends the process inside main and is no return
\* and no exception.)

DbClosedOnce ==
    /\ closeCalls \in {0, 1}
    /\ (closeCalls = 1) = (dbHandle = "closed")
    /\ (mainPc = "exited" /\ dbHandle # "unopened" /\ exit # "abort") => closeCalls = 1
    /\ (mainPc = "handlers" /\ dbHandle # "unopened") => closeCalls = 1
    /\ mainPc \in {"tool", "catch", "close"} => dbHandle = "open"

\* verify-dir threw an int: the database was closed once and main was left
\* through no handler.
WitnessDbClosedOnce ==
    /\ mainPc = "exited"
    /\ tool = "verifyDir"
    /\ exit = "terminate"
    /\ inFlight = "int"
    /\ closeCalls = 1

\* ---------------------------------------------------------------------------
\* C15. The expectation stack follows the open directories: ctxs holds as
\* many frames as there are directories whose dirStart was called and whose
\* dirEnd was not; a step pushes one frame exactly when it calls dirStart and
\* pops one exactly when it calls dirEnd, and no other step changes the
\* depth; after a completed walk the stack is empty, also when a subtree was
\* skipped for a denied access.

CountOp(op) == Cardinality({i \in DOMAIN calls : calls[i].op = op})

StackDepthState ==
    /\ Len(ctxs) = CountOp("dirStart") - CountOp("dirEnd")
    /\ OpenAfter(Len(calls)) # Bad => Len(ctxs) = Len(OpenAfter(Len(calls)))
    /\ Walked => ctxs = <<>>

StackDepthStep ==
    LET called == IF Len(calls') > Len(calls) THEN calls'[Len(calls')].op ELSE "none"
    IN  /\ called = "dirStart" => Len(ctxs') = Len(ctxs) + 1
        /\ called = "dirEnd" => Len(ctxs') = Len(ctxs) - 1
        /\ called \notin {"dirStart", "dirEnd"} => Len(ctxs') = Len(ctxs)

StackDepth == []StackDepthState /\ [][StackDepthStep]_vars

\* A completed walk that entered a subdirectory and was denied another one,
\* with the stack empty.
WitnessStackDepth ==
    /\ Walked
    /\ ctxs = <<>>
    /\ denied # {}
    /\ Cardinality(Entered) >= 2

\* ---------------------------------------------------------------------------
\* C16. Frames are isolated: while the walk runs, frame i of ctxs is the
\* expectation fetched for the i-th open directory, less the names of the
\* files visited in that directory so far, so file(d, name) and dirEnd(d)
\* find the expectation of d on top and a subdirectory that was entered and
\* left has changed nothing in the frame of d or below; and a step never
\* changes a frame below the top: dirStart pushes the fetched expectation,
\* dirEnd pops, file() at most erases its own name from the top frame.

\* What is left of the expectation fetched for d after the visits so far.
Remaining(d) ==
    LET m == getFiles(db, d)
    IN  [n \in {x \in DOMAIN m : CountCall("file", d, x) = 0} |-> m[n]]

FramesState ==
    (pc # "aborted" /\ OpenAfter(Len(calls)) # Bad) =>
        LET open == OpenAfter(Len(calls))
        IN  /\ Len(ctxs) = Len(open)
            /\ \A i \in 1..Len(open) : ctxs[i] = Remaining(open[i])

FramesStep ==
    LET called == IF Len(calls') > Len(calls) THEN calls'[Len(calls')] ELSE Call("none", <<>>, "")
    IN  /\ \A i \in 1..(Len(ctxs) - 1) : i <= Len(ctxs') => ctxs'[i] = ctxs[i]
        /\ called.op = "dirStart" => ctxs' = Append(ctxs, getFiles(db, called.relDir))
        /\ called.op = "dirEnd" => ctxs' = Pop(ctxs)
        /\ called.op = "file" =>
             \/ ctxs' = ctxs
             \/ /\ called.name \in DOMAIN Top(ctxs)
                /\ ctxs' = SetTop(ctxs, [n \in DOMAIN Top(ctxs) \ {called.name} |-> Top(ctxs)[n]])
        /\ called.op = "none" => ctxs' = ctxs

FrameIsolation == []FramesState /\ [][FramesStep]_vars

\* The walk is back in the root after a subdirectory was entered and left,
\* with a file of the root visited before and an expected name still in the
\* root's frame.
WitnessFrameIsolation ==
    /\ pc = "scan"
    /\ Len(ctxs) = 1
    /\ DOMAIN ctxs[1] # {}
    /\ \E i, j \in DOMAIN calls :
         /\ i < j
         /\ calls[i].op = "file" /\ calls[i].relDir = <<>>
         /\ calls[j].op = "dirEnd" /\ calls[j].relDir # <<>>

\* ---------------------------------------------------------------------------
\* C17. FileNotFound is exact: once dirEnd(d) was called, FileNotFound was
\* logged for d/n exactly once if n was in the expectation fetched for d and
\* no regular file n was visited in d, and not at all otherwise; before
\* dirEnd(d), and for directories never entered, it was not logged; a file
\* that was visited is never reported FileNotFound, whatever fields
\* mismatched.

AllDirs == LiveDirs \cup db.dirs \cup Entered

FileNotFoundExact ==
    \A d \in AllDirs : \A n \in Names :
        CountLog("FileNotFound", relativePath(d, n)) =
            IF /\ CountCall("dirEnd", d, "") = 1
               /\ n \in Recorded(d)
               /\ CountCall("file", d, n) = 0
            THEN 1 ELSE 0

\* After dirEnd of a directory in which one expected file was visited and
\* mismatched on size, timestamp and digest, and another expected name was
\* not visited: the second is reported FileNotFound and the first is not.
WitnessFileNotFoundExact ==
    \E d \in Entered : \E a, b \in Names :
        /\ a # b
        /\ CountCall("dirEnd", d, "") = 1
        /\ CountCall("file", d, a) = 1
        /\ \A type \in FieldTypes : CountLog(type, relativePath(d, a)) = 1
        /\ CountLog("FileNotFound", relativePath(d, a)) = 0
        /\ CountCall("file", d, b) = 0
        /\ CountLog("FileNotFound", relativePath(d, b)) = 1

\* ---------------------------------------------------------------------------
\* C18. Directory handles are released: once the walk is over, by return or
\* by a thrown error, no DIR handle obtained from opendir is still open.
\* This fails in the code: an error thrown below a directory leaves
\* scanFiles before the closedir of every directory open at that moment.

DirHandlesReleased == pc \in {"postwalk", "done", "aborted"} => dirHandles = {}

\* The part that holds: a walk that returned has closed every handle, and the
\* handles left open by an aborted walk are those of the directories that
\* were entered and not ended.
DirHandlesOfOpenDirs ==
    /\ Walked => dirHandles = {}
    /\ dirHandles = {d \in Entered : CountCall("dirEnd", d, "") = 0}

\* ---------------------------------------------------------------------------
\* C19. checkFileMismatch returns true exactly when the kinds are equal and,
\* for kind file, size, millisecond timestamp and digest are all equal; when
\* the kinds differ it reports the kind mismatch and nothing else; when both
\* are files it reports exactly the fields that differ, each once, and no
\* kind mismatch; when both are directories it reports nothing.

\* The fields in which the two records of the call differ.
DifferingFields ==
    (IF cfExpected.fileSize # cfActual.fileSize THEN {"SizeMismatch"} ELSE {})
    \cup (IF cfExpected.lastModifiedTS # cfActual.lastModifiedTS THEN {"TimestampMismatch"} ELSE {})
    \cup (IF cfExpected.md5Digest # cfActual.md5Digest THEN {"DigestMismatch"} ELSE {})

CountReport(type) == Cardinality({i \in DOMAIN cfLog : cfLog[i] = type})

CheckResult ==
    cfPc = "returned" =>
        /\ fullMatch = (/\ cfExpected.type = cfActual.type
                        /\ cfActual.type = "file" => DifferingFields = {})
        /\ cfExpected.type # cfActual.type => cfLog = <<"TypeMismatch">>
        /\ (cfExpected.type = "file" /\ cfActual.type = "file") =>
             /\ CountReport("TypeMismatch") = 0
             /\ \A type \in FieldTypes :
                  CountReport(type) = IF type \in DifferingFields THEN 1 ELSE 0
        /\ (cfExpected.type = "dir" /\ cfActual.type = "dir") => cfLog = <<>>

\* Two file records that differ in size and digest and agree on the
\* timestamp: false was returned and size and digest were reported.
WitnessCheckResult ==
    /\ cfPc = "returned"
    /\ cfExpected.type = "file" /\ cfActual.type = "file"
    /\ DifferingFields = {"SizeMismatch", "DigestMismatch"}
    /\ ~fullMatch
    /\ cfLog = <<"Mismatch", "SizeMismatch", "DigestMismatch">>

\* ---------------------------------------------------------------------------
\* C20. A visit of an unrecorded file: a step that calls file(d, name) with
\* name not in the top expectation logs exactly one NewFileFound for d/name
\* and nothing else, does not call fillFileRecord (so it cannot fail on
\* opening or reading the file), and leaves ctxs, dbDirs and the walk's
\* status as they were; a file reported NewFileFound was never hashed and has
\* no field mismatch reported.

UnrecordedVisitStep ==
    (/\ Len(calls') = Len(calls) + 1
     /\ calls'[Len(calls')].op = "file"
     /\ calls'[Len(calls')].name \notin DOMAIN Top(ctxs))
    => LET path == relativePath(calls'[Len(calls')].relDir, calls'[Len(calls')].name)
       IN  /\ log' = Append(log, Event("NewFileFound", path))
           /\ hashed' = hashed
           /\ ctxs' = ctxs
           /\ dbDirs' = dbDirs
           /\ pc' = pc /\ thrown' = "none"

UnrecordedVisitState ==
    \A i \in DOMAIN log :
        log[i].type = "NewFileFound" =>
            /\ log[i].path \notin hashed
            /\ CountLog("NewFileFound", log[i].path) = 1
            /\ \A type \in FieldTypes : CountLog(type, log[i].path) = 0

UnrecordedVisit == []UnrecordedVisitState /\ [][UnrecordedVisitStep]_vars

\* An unrecorded file was visited while the top expectation and dbDirs were
\* not empty, and they are what they were.
WitnessUnrecordedVisit ==
    /\ pc = "scan"
    /\ calls # <<>>
    /\ calls[Len(calls)].op = "file"
    /\ log # <<>>
    /\ log[Len(log)] = Event("NewFileFound",
                              relativePath(calls[Len(calls)].relDir, calls[Len(calls)].name))
    /\ log[Len(log)].path \notin hashed
    /\ DOMAIN Top(ctxs) # {}
    /\ dbDirs # {}

====
